---- MODULE Spec2Model ----
(***************************************************************************)
(* Model of package utili (github.com/marco-m/utili): DotRename,           *)
(* IdentityRename, CopyDir2 and copyFile.                                  *)
(*                                                                         *)
(* A string is a sequence of one-character strings.  A path is a sequence  *)
(* of names (its components below the filesystem root).  The filesystem is *)
(* a function from the paths that exist to nodes.                          *)
(***************************************************************************)
EXTENDS Integers, Sequences, FiniteSets, TLC

VARIABLES
    fs,        \* the filesystem: path -> node
    fs0,       \* the filesystem when CopyDir2 was called (history)
    src,       \* argument src of the top-level CopyDir2
    dst,       \* argument dst of the top-level CopyDir2
    rename,    \* argument rename: "DotRename" or "IdentityRename"
    tmplData,  \* argument tmplData: key -> value
    stack,     \* the active CopyDir2 calls, innermost last
    pc,        \* "ready", "running" or "done"
    err,       \* the error the walk has met (NoErr: none)
    visited,   \* the source entries the loops have taken, in order (history)
    created,   \* the files copyFile has created, in order (history)
    name,      \* DotRename's argument (specification SpecDotRename)
    renamed    \* DotRename's result (specification SpecDotRename)

vars == <<fs, fs0, src, dst, rename, tmplData, stack, pc, err, visited, created,
          name, renamed>>

(***************************************************************************)
(* Bounds                                                                  *)
(***************************************************************************)
\* the number of entries picked from the pool into the source tree
MaxEntries == 3
\* the length of the names DotRename is applied to in SpecDotRename
MaxNameLen == 8

(***************************************************************************)
(* Strings                                                                 *)
(***************************************************************************)
Min(S) == CHOOSE x \in S : \A y \in S : x <= y

\* the byte value of a character
Code(c) ==
    CASE c = "\"" -> 34 [] c = "#" -> 35 [] c = "&" -> 38 [] c = "'" -> 39
      [] c = "+" -> 43 [] c = "." -> 46 [] c = "3" -> 51 [] c = "4" -> 52
      [] c = "9" -> 57 [] c = ";" -> 59 [] c = "<" -> 60 [] c = ">" -> 62
      [] c = "X" -> 88 [] c = "a" -> 97 [] c = "b" -> 98 [] c = "c" -> 99
      [] c = "d" -> 100 [] c = "e" -> 101 [] c = "f" -> 102 [] c = "g" -> 103
      [] c = "h" -> 104 [] c = "i" -> 105 [] c = "j" -> 106 [] c = "k" -> 107
      [] c = "l" -> 108 [] c = "m" -> 109 [] c = "n" -> 110 [] c = "o" -> 111
      [] c = "p" -> 112 [] c = "q" -> 113 [] c = "s" -> 115 [] c = "t" -> 116
      [] c = "x" -> 120 [] c = "y" -> 121 [] c = "z" -> 122 [] c = "{" -> 123
      [] c = "}" -> 125

\* s < t in byte order, as sort.Slice orders the names ioutil.ReadDir returns
RECURSIVE StrLess(_, _)
StrLess(s, t) ==
    IF t = <<>> THEN FALSE
    ELSE IF s = <<>> THEN TRUE
    ELSE IF Head(s) # Head(t) THEN Code(Head(s)) < Code(Head(t))
    ELSE StrLess(Tail(s), Tail(t))

HasPrefix(s, p) == Len(s) >= Len(p) /\ SubSeq(s, 1, Len(p)) = p

HasSuffix(s, x) == Len(s) >= Len(x) /\ SubSeq(s, Len(s) - Len(x) + 1, Len(s)) = x

\* strings.TrimSuffix
TrimSuffix(s, x) == IF HasSuffix(s, x) THEN SubSeq(s, 1, Len(s) - Len(x)) ELSE s

\* strings.Index: the 0-based index of the first occurrence of old in s, or -1
Index(s, old) ==
    LET occ == {i \in 0..(Len(s) - Len(old)) : SubSeq(s, i + 1, i + Len(old)) = old}
    IN  IF occ = {} THEN -1 ELSE Min(occ)

\* strings.Replace for a non-empty old: the first n occurrences (all when n < 0)
RECURSIVE Replace(_, _, _, _)
Replace(s, old, new, n) ==
    IF old = new \/ n = 0 \/ Index(s, old) = -1 THEN s
    ELSE LET j == Index(s, old)
         IN  SubSeq(s, 1, j) \o new
               \o Replace(SubSeq(s, j + Len(old) + 1, Len(s)), old, new, n - 1)

DotPrefix == <<"d", "o", "t", ".">>

\* a mutant of DotRename: every occurrence is replaced
DotRenameAll(n) == Replace(n, DotPrefix, <<".">>, -1)

DotRename(n) == Replace(n, DotPrefix, <<".">>, 1)

IdentityRename(n) == n

\* the call rename(n) of a RenameFn
ApplyRename(fn, n) == IF fn = "DotRename" THEN DotRename(n) ELSE IdentityRename(n)

(***************************************************************************)
(* html/template, for the templates the model generates: literal text      *)
(* without markup and actions of the form {{.key}}.                        *)
(***************************************************************************)
LeftDelim == <<"{", "{">>
RightDelim == <<"}", "}">>
TemplateSuffix == <<".", "t", "e", "m", "p", "l", "a", "t", "e">>

IsAlphaNumeric(c) == (Code(c) >= 97 /\ Code(c) <= 122) \/ (Code(c) >= 48 /\ Code(c) <= 57)
                        \/ (Code(c) >= 65 /\ Code(c) <= 90)

\* the body of an action that is one field of the data: .key
IsField(body) ==
    /\ Len(body) >= 2
    /\ body[1] = "."
    /\ \A i \in 2..Len(body) : IsAlphaNumeric(body[i])

TextNode(s) == IF s = <<>> THEN <<>> ELSE <<[kind |-> "text", val |-> s]>>

\* template.New(...).Parse(s): [ok, nodes]
RECURSIVE ParseTemplate(_)
ParseTemplate(s) ==
    LET i == Index(s, LeftDelim)
    IN  IF i = -1 THEN [ok |-> TRUE, nodes |-> TextNode(s)]
        ELSE LET rest == SubSeq(s, i + 3, Len(s))
                 j == Index(rest, RightDelim)
             IN  IF j = -1 THEN [ok |-> FALSE, nodes |-> <<>>]   \* unclosed action
                 ELSE LET body == SubSeq(rest, 1, j)
                          tail == ParseTemplate(SubSeq(rest, j + 3, Len(rest)))
                      IN  IF ~IsField(body) \/ ~tail.ok
                          THEN [ok |-> FALSE, nodes |-> <<>>]
                          ELSE [ok |-> TRUE,
                                nodes |-> TextNode(SubSeq(s, 1, i))
                                            \o <<[kind |-> "field",
                                                  val |-> Tail(body)]>>
                                            \o tail.nodes]

\* html/template's escaper for a value in element content (htmlReplacementTable)
EscapeChar(c) ==
    CASE c = "\"" -> <<"&", "#", "3", "4", ";">>
      [] c = "&" -> <<"&", "a", "m", "p", ";">>
      [] c = "'" -> <<"&", "#", "3", "9", ";">>
      [] c = "+" -> <<"&", "#", "4", "3", ";">>
      [] c = "<" -> <<"&", "l", "t", ";">>
      [] c = ">" -> <<"&", "g", "t", ";">>
      [] OTHER -> <<c>>

RECURSIVE HTMLEscape(_)
HTMLEscape(v) == IF v = <<>> THEN <<>> ELSE EscapeChar(Head(v)) \o HTMLEscape(Tail(v))

\* the evaluation of {{.key}} under Option("missingkey=error"): [ok, val]
FieldValue(data, key) ==
    IF key \in DOMAIN data THEN [ok |-> TRUE, val |-> HTMLEscape(data[key])]
    ELSE [ok |-> FALSE, val |-> <<>>]

\* tmpl.Execute(w, data) on a writer holding out: [ok, out]; the nodes before
\* a failing one have been written
RECURSIVE ExecuteNodes(_, _, _)
ExecuteNodes(nodes, data, out) ==
    IF nodes = <<>> THEN [ok |-> TRUE, out |-> out]
    ELSE LET n == Head(nodes)
         IN  IF n.kind = "text" THEN ExecuteNodes(Tail(nodes), data, out \o n.val)
             ELSE LET v == FieldValue(data, n.val)
                  IN  IF v.ok THEN ExecuteNodes(Tail(nodes), data, out \o v.val)
                      ELSE [ok |-> FALSE, out |-> out]

(***************************************************************************)
(* The filesystem                                                          *)
(***************************************************************************)
DirNode == [dir |-> TRUE, content |-> <<>>]

FileNode(c) == [dir |-> FALSE, content |-> c]

Parent(p) == IF p = <<>> THEN <<>> ELSE SubSeq(p, 1, Len(p) - 1)

\* filepath.Base of a path with at least one component
Base(p) == p[Len(p)]

\* filepath.Join(d, n) for one element n, cleaned as filepath.Clean does
Join(d, n) ==
    IF n = <<>> \/ n = <<".">> THEN d
    ELSE IF n = <<".", ".">> THEN Parent(d)
    ELSE Append(d, n)

IsDir(f, p) == p \in DOMAIN f /\ f[p].dir

\* f with node n at path p
Put(f, p, n) == [q \in DOMAIN f \cup {p} |-> IF q = p THEN n ELSE f[q]]

\* os.MkdirAll(p, 0770): [ok, fs]; an existing directory is a success, a file
\* on the way is an error met before anything is made
RECURSIVE MkdirAll(_, _)
MkdirAll(f, p) ==
    IF p \in DOMAIN f THEN [ok |-> f[p].dir, fs |-> f]
    ELSE LET up == MkdirAll(f, Parent(p))
         IN  IF up.ok THEN [ok |-> TRUE, fs |-> Put(up.fs, p, DirNode)]
             ELSE [ok |-> FALSE, fs |-> f]

RECURSIVE SortNames(_)
SortNames(S) ==
    IF S = {} THEN <<>>
    ELSE LET m == CHOOSE x \in S : \A y \in S \ {x} : StrLess(x, y)
         IN  <<m>> \o SortNames(S \ {m})

\* ioutil.ReadDir(p): the entries of directory p, sorted by name
ReadDir(f, p) ==
    LET kids == {q \in DOMAIN f : Len(q) = Len(p) + 1 /\ SubSeq(q, 1, Len(p)) = p}
        names == SortNames({q[Len(q)] : q \in kids})
    IN  [i \in 1..Len(names) |->
            [name |-> names[i], isDir |-> f[Append(p, names[i])].dir]]

(***************************************************************************)
(* Errors: the failing operation and the path the error names              *)
(***************************************************************************)
NoErr == [op |-> "nil", path |-> <<>>]

Error(op, p) == [op |-> op, path |-> p]

(***************************************************************************)
(* copyFile                                                                *)
(***************************************************************************)
\* a mutant of OpenFileExcl: O_TRUNC in the place of O_EXCL
OpenFileTrunc(f, p) ==
    IF IsDir(f, Parent(p)) /\ ~IsDir(f, p)
    THEN [ok |-> TRUE, fs |-> Put(f, p, FileNode(<<>>))]
    ELSE [ok |-> FALSE, fs |-> f]

\* os.OpenFile(p, os.O_RDWR|os.O_CREATE|os.O_EXCL, 0660): [ok, fs]
OpenFileExcl(f, p) ==
    IF p \notin DOMAIN f /\ IsDir(f, Parent(p))
    THEN [ok |-> TRUE, fs |-> Put(f, p, FileNode(<<>>))]
    ELSE [ok |-> FALSE, fs |-> f]

\* io.Copy(dstFile, srcFile): what is written
CopyBytes(c) == c

\* a mutant of ErrCreating: the error of os.OpenFile is dropped
ErrCreatingDropped(p) == NoErr

\* the error copyFile returns when os.OpenFile fails
ErrCreating(p) == Error("creating dst file", p)

\* copyFile(srcPath, dstPath, tmplData): [err, fs, made]; made: dstPath was created
copyFile(f, srcPath, dstPath, data) ==
    IF srcPath \notin DOMAIN f
    THEN [err |-> Error("opening src file", srcPath), fs |-> f, made |-> FALSE]
    ELSE LET o == OpenFileExcl(f, dstPath)
             buf == f[srcPath].content
         IN  IF ~o.ok
             THEN [err |-> ErrCreating(dstPath), fs |-> f, made |-> FALSE]
             ELSE IF DOMAIN data = {}
             THEN [err |-> NoErr, fs |-> Put(o.fs, dstPath, FileNode(CopyBytes(buf))),
                   made |-> TRUE]
             ELSE LET t == ParseTemplate(buf)
                      x == ExecuteNodes(t.nodes, data, <<>>)
                  IN  IF ~t.ok
                      THEN [err |-> Error("parsing template", srcPath), fs |-> o.fs,
                            made |-> TRUE]
                      ELSE [err |-> IF x.ok THEN NoErr
                                    ELSE Error("executing template", srcPath),
                            fs |-> Put(o.fs, dstPath, FileNode(x.out)),
                            made |-> TRUE]

(***************************************************************************)
(* CopyDir2                                                                *)
(***************************************************************************)
\* the loop over src and dst at the head of CopyDir2; the second message names
\* dst for either directory
CheckDirs(f, s, d) ==
    IF s \notin DOMAIN f THEN Error("stat", s)
    ELSE IF ~f[s].dir THEN Error("is not a directory", d)
    ELSE IF d \notin DOMAIN f THEN Error("stat", d)
    ELSE IF ~f[d].dir THEN Error("is not a directory", d)
    ELSE NoErr

\* a mutant of TargetDir: the name is renamed at the top level only
TargetDirTopOnly(fn, s, d, depth) ==
    Join(d, IF depth = 0 THEN ApplyRename(fn, Base(s)) ELSE Base(s))

\* tgtDir of the call CopyDir2(s, d, fn, _) made with depth calls active
TargetDir(fn, s, d, depth) == Join(d, ApplyRename(fn, Base(s)))

\* a mutant of EnterDir: the target directory is made before src and dst are checked
EnterDirMkdirFirst(f, s, d, fn, depth) ==
    LET tgtDir == TargetDir(fn, s, d, depth)
        mk == MkdirAll(f, tgtDir)
        chk == CheckDirs(mk.fs, s, d)
        none == [src |-> s, tgtDir |-> tgtDir, entries |-> <<>>]
    IN  IF ~mk.ok
        THEN [err |-> Error("making dst dir", tgtDir), fs |-> f, frame |-> none]
        ELSE IF chk # NoErr THEN [err |-> chk, fs |-> mk.fs, frame |-> none]
        ELSE [err |-> NoErr, fs |-> mk.fs,
              frame |-> [src |-> s, tgtDir |-> tgtDir, entries |-> ReadDir(mk.fs, s)]]

\* CopyDir2(s, d, ...) up to its loop: [err, fs, frame]
EnterDir(f, s, d, fn, depth) ==
    LET chk == CheckDirs(f, s, d)
        tgtDir == TargetDir(fn, s, d, depth)
        mk == MkdirAll(f, tgtDir)
        none == [src |-> s, tgtDir |-> tgtDir, entries |-> <<>>]
    IN  IF chk # NoErr THEN [err |-> chk, fs |-> f, frame |-> none]
        ELSE IF ~mk.ok
        THEN [err |-> Error("making dst dir", tgtDir), fs |-> f, frame |-> none]
        ELSE [err |-> NoErr, fs |-> mk.fs,
              frame |-> [src |-> s, tgtDir |-> tgtDir, entries |-> ReadDir(mk.fs, s)]]

\* a mutant of FileName: only names with the suffix are rendered
FileNameSuffixOnly(n, data) ==
    IF DOMAIN data = {} \/ ~HasSuffix(n, TemplateSuffix) THEN [op |-> "nil", name |-> n]
    ELSE LET t == ParseTemplate(TrimSuffix(n, TemplateSuffix))
             x == ExecuteNodes(t.nodes, data, <<>>)
         IN  IF ~t.ok THEN [op |-> "parsing file name as template", name |-> n]
             ELSE IF ~x.ok THEN [op |-> "executing template file name", name |-> n]
             ELSE [op |-> "nil", name |-> x.out]

\* the destination name of the file entry n: [op, name], op the failing step
FileName(n, data) ==
    IF DOMAIN data = {} THEN [op |-> "nil", name |-> n]
    ELSE LET t == ParseTemplate(TrimSuffix(n, TemplateSuffix))
             x == ExecuteNodes(t.nodes, data, <<>>)
         IN  IF ~t.ok THEN [op |-> "parsing file name as template", name |-> n]
             ELSE IF ~x.ok THEN [op |-> "executing template file name", name |-> n]
             ELSE [op |-> "nil", name |-> x.out]

\* the top call's loop moves to its next entry
Advance(st) == [st EXCEPT ![Len(st)].entries = Tail(@)]

\* a mutant of Unwind: the error is dropped and the loop goes on
UnwindContinue(st) == Advance(st)

\* "return err" in every active call: the calls left after an error
Unwind(st) == <<>>

(***************************************************************************)
(* The inputs: filesystems, arguments and template data                    *)
(***************************************************************************)
SrcRoot == <<"d", "o", "t", ".", "s">>     \* /dot.s, the source tree
DstRoot == <<"x">>                         \* /x, the destination directory
PlainFile == <<"f">>                       \* /f, a regular file
Missing == <<"n">>                         \* /n does not exist

Key == <<"k">>
Placeholder == LeftDelim \o <<".">> \o Key \o RightDelim    \* {{.k}}

\* the files a source tree is picked from: path below the source root, content
Pool ==
    { [path |-> << <<"a">> >>, content |-> <<"h", "i">>],
      [path |-> << <<"a">> \o TemplateSuffix >>,
       content |-> <<"i">> \o Placeholder \o <<"o">>],
      [path |-> << <<"d", "o", "t", ".", "g">>, <<"c">> >>, content |-> <<"x">>],
      [path |-> << <<".", "g">>, <<"c">> >>, content |-> <<"y">>],
      [path |-> << <<".", "g">>, <<"e">> >>, content |-> <<"z">>],
      [path |-> << <<"d", "o", "t", ".", "g">>, <<"d", "o", "t", ".", "h">>, <<"b">> >>,
       content |-> Placeholder],
      [path |-> << <<"b">> \o Placeholder >>, content |-> <<"z">>],
      [path |-> << <<"m">> >>, content |-> LeftDelim],
      [path |-> << <<"p">> \o LeftDelim >>, content |-> <<"q">>] }

\* what the destination directory holds before the call
PreExisting ==
    { {},
      { [path |-> <<DstRoot, <<".", "s">>, <<"a">> >>, content |-> <<"o", "l", "d">>] },
      { [path |-> <<DstRoot, <<".", "s">>, <<".", "g">> >>, content |-> <<"o", "l", "d">>] } }

DataChoices ==
    { <<>>,
      (Key :> <<"X">>),
      (Key :> <<"<", "a">>),
      (<<"j">> :> <<"X">>) }

ProperPrefixes(p) == {SubSeq(p, 1, i) : i \in 0..(Len(p) - 1)}

\* the filesystem that holds the directories D, the files F and their ancestors
MakeFs(D, F) ==
    LET files == {x.path : x \in F}
        dirs == D \cup UNION {ProperPrefixes(p) : p \in files \cup D}
    IN  [p \in dirs \cup files |->
            IF p \in files THEN FileNode((CHOOSE x \in F : x.path = p).content)
            ELSE DirNode]

InitFs(S, pre) ==
    MakeFs({<<SrcRoot>>, <<DstRoot>>},
           {[path |-> <<SrcRoot>> \o x.path, content |-> x.content] : x \in S}
             \cup pre \cup {[path |-> <<PlainFile>>, content |-> <<"f">>]})

Init ==
    /\ \E S \in SUBSET Pool, pre \in PreExisting :
          /\ Cardinality(S) <= MaxEntries
          /\ fs = InitFs(S, pre)
    /\ fs0 = fs
    /\ src \in {<<SrcRoot>>, <<PlainFile>>, <<Missing>>}
    /\ dst \in {<<DstRoot>>, <<PlainFile>>, <<Missing>>}
    /\ rename \in {"DotRename", "IdentityRename"}
    /\ tmplData \in DataChoices
    /\ stack = <<>>
    /\ pc = "ready"
    /\ err = NoErr
    /\ visited = <<>>
    /\ created = <<>>
    /\ name = <<>>
    /\ renamed = <<>>

(***************************************************************************)
(* The walk, one step per call of CopyDir2 entered, per file entry and per *)
(* call returned                                                           *)
(***************************************************************************)
Top == stack[Len(stack)]

\* the state after a step that ended with error e, the calls st being active
Fail(e, st) ==
    /\ err' = e
    /\ stack' = Unwind(st)
    /\ pc' = IF Unwind(st) = <<>> THEN "done" ELSE "running"

\* the top-level call CopyDir2(src, dst, rename, tmplData), up to its loop
Call ==
    /\ pc = "ready"
    /\ LET r == EnterDir(fs, src, dst, rename, 0)
       IN  /\ fs' = r.fs
           /\ IF r.err = NoErr
              THEN stack' = <<r.frame>> /\ pc' = "running" /\ err' = err
              ELSE stack' = <<>> /\ pc' = "done" /\ err' = r.err
    /\ UNCHANGED <<fs0, src, dst, rename, tmplData, visited, created, name, renamed>>

\* the loop takes a directory entry: the recursive call, up to its loop
Descend ==
    /\ pc = "running" /\ stack # <<>> /\ Top.entries # <<>>
    /\ Head(Top.entries).isDir
    /\ LET s == Join(Top.src, Head(Top.entries).name)
           r == EnterDir(fs, s, Top.tgtDir, rename, Len(stack))
       IN  /\ fs' = r.fs
           /\ visited' = Append(visited, s)
           /\ IF r.err = NoErr
              THEN stack' = Append(Advance(stack), r.frame) /\ UNCHANGED <<pc, err>>
              ELSE Fail(r.err, stack)
    /\ UNCHANGED <<fs0, src, dst, rename, tmplData, created, name, renamed>>

\* the loop takes a file entry: its name is resolved and copyFile is called
CopyEntry ==
    /\ pc = "running" /\ stack # <<>> /\ Top.entries # <<>>
    /\ ~Head(Top.entries).isDir
    /\ LET s == Join(Top.src, Head(Top.entries).name)
           n == FileName(Head(Top.entries).name, tmplData)
           d == Join(Top.tgtDir, n.name)
           r == copyFile(fs, s, d, tmplData)
       IN  /\ visited' = Append(visited, s)
           /\ IF n.op # "nil"
              THEN Fail(Error(n.op, s), stack) /\ UNCHANGED <<fs, created>>
              ELSE /\ fs' = r.fs
                   /\ created' = IF r.made
                                 THEN Append(created, [src |-> s, dst |-> d,
                                                       ok |-> r.err = NoErr])
                                 ELSE created
                   /\ IF r.err = NoErr
                      THEN stack' = Advance(stack) /\ UNCHANGED <<pc, err>>
                      ELSE Fail(r.err, stack)
    /\ UNCHANGED <<fs0, src, dst, rename, tmplData, name, renamed>>

\* the loop of the innermost call is over: return nil
Return ==
    /\ pc = "running" /\ stack # <<>> /\ Top.entries = <<>>
    /\ stack' = SubSeq(stack, 1, Len(stack) - 1)
    /\ pc' = IF Len(stack) = 1 THEN "done" ELSE "running"
    /\ UNCHANGED <<fs, fs0, src, dst, rename, tmplData, err, visited, created,
                   name, renamed>>

Next == Call \/ Descend \/ CopyEntry \/ Return

Spec == Init /\ [][Next]_vars

(***************************************************************************)
(* DotRename on every name of bounded length                               *)
(***************************************************************************)
NameChars == {"d", "o", "t", "."}

\* the names of the examples: dot.git, git, a.dot.b
Examples ==
    { <<"d", "o", "t", ".", "g", "i", "t">>,
      <<"g", "i", "t">>,
      <<"a", ".", "d", "o", "t", ".", "b">> }

Names == UNION {[1..n -> NameChars] : n \in 0..MaxNameLen} \cup Examples

InitDotRename ==
    /\ fs = InitFs({}, {})
    /\ fs0 = fs
    /\ src = <<SrcRoot>>
    /\ dst = <<DstRoot>>
    /\ rename = "DotRename"
    /\ tmplData = <<>>
    /\ stack = <<>>
    /\ pc = "ready"
    /\ err = NoErr
    /\ visited = <<>>
    /\ created = <<>>
    /\ name = <<>>
    /\ renamed = <<>>

CallDotRename ==
    /\ pc = "ready"
    /\ \E n \in Names : name' = n /\ renamed' = DotRename(n)
    /\ pc' = "done"
    /\ UNCHANGED <<fs, fs0, src, dst, rename, tmplData, stack, err, visited, created>>

SpecDotRename == InitDotRename /\ [][CallDotRename]_vars

(***************************************************************************)
(* Claims                                                                  *)
(***************************************************************************)
Range(s) == {s[i] : i \in DOMAIN s}

Succeeded == pc = "done" /\ err = NoErr

\* the path the claim C1 gives the copy of source path p: below dst, every
\* directory renamed, a file's base name kept
Mirror(p) ==
    LET rel == SubSeq(p, Len(src), Len(p))
    IN  dst \o [i \in 1..Len(rel) |->
                   IF i = Len(rel) /\ ~fs0[p].dir THEN rel[i]
                   ELSE IF rename = "DotRename" THEN DotRename(rel[i]) ELSE rel[i]]

\* C1: after a successful CopyDir2 with empty template data, every directory
\* of the source tree exists below dst under its renamed parent with its
\* renamed name, and every file exists in the directory of its parent with its
\* base name and its content unchanged.
C1_Mirror ==
    (Succeeded /\ DOMAIN tmplData = {}) =>
        \A p \in DOMAIN fs0 :
            HasPrefix(p, src) => Mirror(p) \in DOMAIN fs /\ fs[Mirror(p)] = fs0[p]

C1_Witness ==
    /\ Succeeded /\ DOMAIN tmplData = {} /\ rename = "DotRename"
    /\ <<SrcRoot, <<"d", "o", "t", ".", "g">>, <<"d", "o", "t", ".", "h">>, <<"b">> >>
          \in DOMAIN fs0
    /\ <<DstRoot, <<".", "s">>, <<".", "g">>, <<".", "h">>, <<"b">> >> \in DOMAIN fs
    /\ <<SrcRoot, <<"a">> \o TemplateSuffix>> \in DOMAIN fs0

\* C2: when rendering a source file's name or content fails on a missing key,
\* CopyDir2 returns the error and no file exists at the destination path of
\* that source file.
C2_NoFileLeft ==
    (pc = "done" /\ err.op \in {"executing template file name", "executing template"}) =>
        \A i \in DOMAIN created :
            created[i].src = err.path => created[i].dst \notin DOMAIN fs

\* the loop of the innermost call is at a file entry
AtFile ==
    /\ pc = "running" /\ stack # <<>> /\ Top.entries # <<>>
    /\ ~Head(Top.entries).isDir

NextName == FileName(Head(Top.entries).name, tmplData)

NextDst == Join(Top.tgtDir, NextName.name)

\* C3: when a file exists at the destination path computed for a source
\* file, the copy of that file fails, CopyDir2 returns that error, and the
\* existing file is as it was before the attempt.
C3_Collision ==
    [][(AtFile /\ NextName.op = "nil" /\ NextDst \in DOMAIN fs /\ ~fs[NextDst].dir) =>
          (/\ err' = Error("creating dst file", NextDst)
           /\ pc' = "done"
           /\ fs' = fs)]_vars

C3_Witness ==
    /\ pc = "done" /\ err.op = "creating dst file"
    /\ \E i \in DOMAIN created : created[i].dst = err.path
    /\ ~fs[err.path].dir

\* C4: when src or dst is missing or is no directory at the top-level call,
\* the call returns an error and the filesystem is as it was before the call.
C4_NoMutation ==
    (pc = "done" /\ (~IsDir(fs0, src) \/ ~IsDir(fs0, dst))) => (err # NoErr /\ fs = fs0)

C4_Witness ==
    /\ pc = "done" /\ IsDir(fs0, src) /\ dst \in DOMAIN fs0 /\ ~fs0[dst].dir
    /\ err.op = "is not a directory"

\* C5: the error of the precondition check for a path that is no directory
\* names that path: src when src is the one, dst when dst is the one.
C5_NamesNonDir ==
    (pc = "done" /\ err.op = "is not a directory") =>
        err.path = IF src \in DOMAIN fs0 /\ ~fs0[src].dir THEN src ELSE dst

\* C6: once an error is met the top-level CopyDir2 has returned it, and no
\* further entry is visited and nothing further is created.
C6_Abort ==
    /\ [](err # NoErr => (pc = "done" /\ ~ENABLED Next))
    /\ [][err # NoErr =>
             (fs' = fs /\ visited' = visited /\ created' = created /\ err' = err)]_vars

C6_Witness ==
    /\ pc = "done" /\ err.op = "creating dst file" /\ Len(err.path) = 4
    /\ \E p \in DOMAIN fs0 : Parent(p) = src /\ p \notin Range(visited)

\* the rendering of s against the template data
Rendered(s) == ExecuteNodes(ParseTemplate(s).nodes, tmplData, <<>>).out

RECURSIVE Substituted(_, _)
Substituted(nodes, data) ==
    IF nodes = <<>> THEN <<>>
    ELSE (IF Head(nodes).kind = "text" THEN Head(nodes).val ELSE data[Head(nodes).val])
           \o Substituted(Tail(nodes), data)

\* C8: with template data that holds every referenced key, the content
\* written is the source content with each placeholder replaced by exactly
\* the value of its key.
C8_Content ==
    \A i \in DOMAIN created :
        (created[i].ok /\ DOMAIN tmplData # {}) =>
            fs[created[i].dst].content =
                Substituted(ParseTemplate(fs0[created[i].src].content).nodes, tmplData)

\* the 0-based places where "dot." occurs in s
Occurrences(s) == {i \in 0..(Len(s) - 4) : SubSeq(s, i + 1, i + 4) = <<"d", "o", "t", ".">>}

\* name with its first "dot." replaced by ".", name when there is none
FirstReplaced(s) ==
    IF Occurrences(s) = {} THEN s
    ELSE LET i == Min(Occurrences(s))
         IN  SubSeq(s, 1, i) \o <<".">> \o SubSeq(s, i + 5, Len(s))

NoDuplicates(s) == \A i, j \in DOMAIN s : i # j => s[i].dst # s[j].dst

\* C10: whatever a step of the walk creates, its parent directory existed
\* before the step; a file, once there, keeps its content; and no path is
\* created twice as a file.
C10_CreateOnce ==
    [][/\ \A p \in DOMAIN fs' \ DOMAIN fs : IsDir(fs, Parent(p))
       /\ \A p \in DOMAIN fs : ~fs[p].dir => (p \in DOMAIN fs' /\ fs'[p] = fs[p])
       /\ NoDuplicates(created')]_vars

C10_Witness ==
    /\ pc = "done" /\ rename = "DotRename"
    /\ err.op = "creating dst file"
    /\ err.path = <<DstRoot, <<".", "s">>, <<".", "g">>, <<"c">> >>
    /\ fs[err.path].content = <<"y">>
    /\ Len(created) = 1
====
